---- MODULE Spec2Model ----
(***************************************************************************)
(* Model of the incremental triage engine of src/email_agent.py            *)
(* (class EmailAgent): checkpoint based detection of new messages          *)
(* (process_new_emails, search_new_emails), the per-message pipeline       *)
(* fetch -> classify -> history -> generate -> draft -> mark processed,    *)
(* and the scheduler loop (run_continuous / main).                         *)
(*                                                                         *)
(* The mailbox service and the reasoning service are the environment:      *)
(* every call made to them is an input chosen with \E (a listing in any    *)
(* order, a failure, a response text).                                     *)
(***************************************************************************)
EXTENDS Integers, Sequences, FiniteSets, TLC

(***************************************************************************)
(* Bounds of the model.                                                    *)
(***************************************************************************)
\* messages that ever arrive in the mailbox during one run
MaxMsgs == 2
\* internal_date values are drawn from 0..MaxDate, clock readings from 1..MaxDate
MaxDate == 3
\* the call counters kept per message saturate here
MaxCount == 2

(***************************************************************************)
(* Program constants.                                                      *)
(***************************************************************************)
\* process_new_emails: self.search_new_emails(max_results=5)
BootstrapLimit == 5
\* process_new_emails: messages().list(..., maxResults=10)
LiveLimit == 10
\* search_new_emails: fetch_limit = max_results if max_results else 50
DefaultFetchLimit == 50

\* Python's None for self.last_check_time (internal dates are >= 0)
None == -1

Ids == 1..MaxMsgs
Dates == 0..MaxDate
\* readings of the wall clock, in the unit of internal_date
Clock == 1..MaxDate

VARIABLES
    \* ---- the mailbox service (environment) ----
    idate,            \* idate[i]: internalDate of message i (immutable)
    \* ---- EmailAgent fields ----
    processed_emails, \* self.processed_emails
    last_check_time,  \* self.last_check_time (None until first set)
    \* ---- control state of main / run_continuous / process_new_emails ----
    mode,             \* "once" (choice 1) or "continuous" (choice 2)
    pc,               \* position of the single thread
    cycleMode,        \* branch of line 451 taken by the cycle
    messages,         \* the listing returned to the cycle
    emails,           \* local 'emails' of the cycle
    idx,              \* loop index of 'for idx, email_info in enumerate(emails, 1)'
    new_email,        \* local 'new_email': the record get_email_details returned
    action,           \* local 'action' (text, a sequence of characters)
    response,         \* local 'response' (text)
    history,          \* local 'history': the record search_conversation_history returned
    \* ---- what the services answered to the calls made for the current
    \* ---- message, kept until the message is marked processed
    hist_in,          \* the mailbox service's answer to the history listing
    gen_out,          \* the reasoning service's outcome of the generation call
    draft_call,       \* the create_draft_reply call: body passed, outcome, result
    \* ---- history of the run, for stating the properties; what is said of
    \* ---- a cycle is kept until the sleep that follows it ends
    outcome,          \* how the cycle went
    cp0,              \* last_check_time when the cycle started
    wall,             \* int(time.time() * 1000) as read by that cycle (0: not read)
    ps0,              \* processed_emails when the cycle started
    bad,              \* id whose metadata fetch raised in the enumeration (0: none)
    bad_fetch,        \* id whose get_email_details raised last in this cycle (0: none)
    raw,              \* the text run_agent_task returned to classify_email
    cur,              \* id of the message classified last in this cycle (0: none);
                      \* both kept until the step after line 537
    verdict,          \* verdict[i]: branch of line 537 taken for message i
    nClassify, nHistory, nGenerate, nDraft   \* calls issued per message

envVars   == <<idate>>
agentVars == <<processed_emails, last_check_time>>
ctlVars   == <<mode, pc, cycleMode, messages, emails, idx, new_email, action, response>>
stepVars  == <<history, hist_in, gen_out, draft_call>>
histVars  == <<outcome, cp0, wall, ps0, bad, bad_fetch, raw, cur, verdict, nClassify, nHistory, nGenerate, nDraft>>
vars      == <<envVars, agentVars, ctlVars, stepVars, histVars>>

(***************************************************************************)
(* Texts.  A text is a sequence of one-character strings, so that          *)
(* str.lower(), str.strip() and the 'in' substring test are computed.      *)
(***************************************************************************)
Txt_ignore      == <<"i","g","n","o","r","e">>
Txt_Ignore_ws   == <<" ","I","g","n","o","r","e","\n">>
Txt_IGNORED     == <<"I","G","N","O","R","E","D">>
Txt_to_ignore   == <<"t","o"," ","i","g","n","o","r","e","!">>
Txt_ignor       == <<"i","g","n","o","r">>
Txt_process     == <<"p","r","o","c","e","s","s">>
Txt_Process_ws  == <<"P","r","o","c","e","s","s"," ">>
Txt_empty       == << >>
Txt_quota       == <<"q","u","o","t","a">>
Txt_reply       == <<"H","i">>
Txt_NoResponse  == <<"N","o"," ","r","e","s","p","o","n","s","e">>
Txt_ErrorPrefix == <<"E","r","r","o","r",":"," ">>

\* str.lower() on one character
LowerChar(c) ==
    CASE c = "A" -> "a" [] c = "B" -> "b" [] c = "C" -> "c" [] c = "D" -> "d"
      [] c = "E" -> "e" [] c = "F" -> "f" [] c = "G" -> "g" [] c = "H" -> "h"
      [] c = "I" -> "i" [] c = "J" -> "j" [] c = "K" -> "k" [] c = "L" -> "l"
      [] c = "M" -> "m" [] c = "N" -> "n" [] c = "O" -> "o" [] c = "P" -> "p"
      [] c = "Q" -> "q" [] c = "R" -> "r" [] c = "S" -> "s" [] c = "T" -> "t"
      [] c = "U" -> "u" [] c = "V" -> "v" [] c = "W" -> "w" [] c = "X" -> "x"
      [] c = "Y" -> "y" [] c = "Z" -> "z"
      [] OTHER -> c

\* str.lower()
lower(s) == [i \in 1..Len(s) |-> LowerChar(s[i])]

IsSpace(c) == c \in {" ", "\n", "\t"}

RECURSIVE lstrip(_)
lstrip(s) == IF s # << >> /\ IsSpace(Head(s)) THEN lstrip(Tail(s)) ELSE s

RECURSIVE rstrip(_)
rstrip(s) ==
    IF s # << >> /\ IsSpace(s[Len(s)]) THEN rstrip(SubSeq(s, 1, Len(s) - 1)) ELSE s

\* str.strip()
strip(s) == rstrip(lstrip(s))

RECURSIVE FindFrom(_, _, _)
FindFrom(needle, s, i) ==
    IF i + Len(needle) - 1 > Len(s) THEN FALSE
    ELSE IF SubSeq(s, i, i + Len(needle) - 1) = needle THEN TRUE
    ELSE FindFrom(needle, s, i + 1)

\* a plausible slip: comparing the whole text instead of searching it
contains_eq(needle, s) == s = needle

\* Python's  needle in s
contains(needle, s) == FindFrom(needle, s, 1)

(***************************************************************************)
(* The reasoning service: what agent_executor.stream does on one call.     *)
(***************************************************************************)
Content(t) == [kind |-> "content", text |-> t]
NoEvents   == [kind |-> "empty",   text |-> Txt_empty]
Raises(t)  == [kind |-> "error",   text |-> t]

\* outcomes offered to the classification call of a cycle
ClassifyOutcomes == { Content(Txt_Ignore_ws), Content(Txt_process), Raises(Txt_quota) }

\* outcomes offered to the generation call of a cycle
ReplyOutcomes == { Content(Txt_reply), NoEvents, Raises(Txt_quota) }

\* outcomes offered to the draft call of a cycle
DraftOutcomes == { Content(Txt_reply), Raises(Txt_quota) }

\* run_agent_task: the final message's content, "No response", or the error text
run_agent_task(o) ==
    CASE o.kind = "content" -> o.text
      [] o.kind = "empty"   -> Txt_NoResponse
      [] o.kind = "error"   -> Txt_ErrorPrefix \o o.text

\* classify_email: self.run_agent_task(classification_prompt).strip().lower()
classify_email(o) == lower(strip(run_agent_task(o)))

\* line 537:  if "ignore" in action.lower()
IsIgnore(act) == contains(Txt_ignore, lower(act))

(***************************************************************************)
(* The mailbox service.                                                    *)
(***************************************************************************)
Min(a, b) == IF a <= b THEN a ELSE b

\* the messages that have arrived
Arrived == 1..Len(idate)

\* messages().list(q='is:unread category:primary', maxResults=limit): up to
\* 'limit' of the unread messages, each once, in the order the service
\* chooses.  Which of the arrived messages are unread at the time of a poll
\* is the user's doing (reading, marking as unread): any subset may be.
Listings(limit) ==
    UNION { { s \in [1..n -> Arrived] : \A i, j \in 1..n : i # j => s[i] # s[j] } :
            n \in 0..Min(limit, Len(idate)) }

\* the dictionary built from messages().get(format='metadata'):
\* internal_date = int(msg_data.get('internalDate', 0))
Email(i) == [id |-> i, internal_date |-> idate[i]]

(***************************************************************************)
(* search_new_emails (lines 103-167).  The caller only receives 'emails';  *)
(* 'raised' tells that the except branch was taken and 'bad' for which     *)
(* message.  failAt is the position in the listing whose metadata fetch    *)
(* raises when the loop gets to it (0: none does).                         *)
(***************************************************************************)
fetch_limit(max_results) == IF max_results # 0 THEN max_results ELSE DefaultFetchLimit

Returned(es) == [raised |-> FALSE, emails |-> es, bad |-> 0]
Excepted(i)  == [raised |-> TRUE,  emails |-> << >>, bad |-> i]

\* the loop of lines 128-160 without the test of line 132
RECURSIVE SearchLoop_noskip(_, _, _, _, _)
SearchLoop_noskip(msgs, i, all_emails, failAt, max_results) ==
    IF i > Len(msgs) THEN Returned(all_emails)
    ELSE IF failAt = i THEN Excepted(msgs[i])
    ELSE LET acc == Append(all_emails, Email(msgs[i]))
         IN  IF max_results # 0 /\ Len(acc) >= max_results
             THEN Returned(acc)
             ELSE SearchLoop_noskip(msgs, i + 1, acc, failAt, max_results)

RECURSIVE SearchLoop(_, _, _, _, _)
SearchLoop(msgs, i, all_emails, failAt, max_results) ==
    IF i > Len(msgs) THEN Returned(all_emails)
    ELSE IF msgs[i] \in processed_emails
         THEN SearchLoop(msgs, i + 1, all_emails, failAt, max_results)
    ELSE IF failAt = i THEN Excepted(msgs[i])
    ELSE LET acc == Append(all_emails, Email(msgs[i]))
         IN  IF max_results # 0 /\ Len(acc) >= max_results
             THEN Returned(acc)
             ELSE SearchLoop(msgs, i + 1, acc, failAt, max_results)

\* search_new_emails returning after the first message it accepts
search_new_emails_first(listOk, msgs, failAt, max_results) ==
    IF ~listOk THEN Excepted(0)
    ELSE IF msgs = << >> THEN Returned(<< >>)
    ELSE SearchLoop(msgs, 1, << >>, failAt, 1)

search_new_emails(listOk, msgs, failAt, max_results) ==
    IF ~listOk THEN Excepted(0)
    ELSE IF msgs = << >> THEN Returned(<< >>)
    ELSE SearchLoop(msgs, 1, << >>, failAt, max_results)

(***************************************************************************)
(* The live-mode scan of process_new_emails (lines 479-502).               *)
(***************************************************************************)
\* the scan with the test of line 490 written  internal_date < checkpoint
RECURSIVE LiveScan_lt(_, _, _, _)
LiveScan_lt(msgs, i, acc, failAt) ==
    IF i > Len(msgs) THEN Returned(acc)
    ELSE IF failAt = i THEN Excepted(msgs[i])
    ELSE IF idate[msgs[i]] < last_check_time THEN Returned(acc)
    ELSE LiveScan_lt(msgs, i + 1, Append(acc, Email(msgs[i])), failAt)

RECURSIVE LiveScan(_, _, _, _)
LiveScan(msgs, i, acc, failAt) ==
    IF i > Len(msgs) THEN Returned(acc)
    ELSE IF failAt = i THEN Excepted(msgs[i])
    ELSE IF idate[msgs[i]] <= last_check_time THEN Returned(acc)
    ELSE LiveScan(msgs, i + 1, Append(acc, Email(msgs[i])), failAt)

RECURSIVE MaxFrom(_, _, _)
MaxFrom(es, i, best) ==
    IF i > Len(es) THEN best
    ELSE MaxFrom(es, i + 1, IF es[i].internal_date > best THEN es[i].internal_date ELSE best)

RECURSIVE MinFrom(_, _, _)
MinFrom(es, i, best) ==
    IF i > Len(es) THEN best
    ELSE MinFrom(es, i + 1, IF es[i].internal_date < best THEN es[i].internal_date ELSE best)

\* the checkpoint taken from the first message of the list
newest_timestamp_first(es) == es[1].internal_date

\* the checkpoint taken from the oldest message of the list
newest_timestamp_min(es) == MinFrom(es, 2, es[1].internal_date)

\* max(email['internal_date'] for email in emails), emails not empty
newest_timestamp(es) == MaxFrom(es, 2, es[1].internal_date)

\* int(time.time()) when the clock reads 'now' milliseconds
time_ms_seconds(now) == now \div 1000

\* int(time.time() * 1000) when the clock reads 'now' milliseconds
time_ms(now) == now

\* Python's  not self.last_check_time
NoCheckpoint(t) == t = None \/ t = 0

\* run_continuous without its 'while True'
AfterCycle_once == "done"

\* where the thread goes when process_new_emails returns
AfterCycle == IF mode = "continuous" THEN "sleep" ELSE "done"

Inc(f, i) == [f EXCEPT ![i] = IF @ < MaxCount THEN @ + 1 ELSE @]

(***************************************************************************)
(* get_email_details (lines 169-227).  A header or a subject is an atomic  *)
(* string; the 'from' header comes with what the pattern of line 232,      *)
(* [\w\.-]+@[\w\.-]+, finds in it ("" when it finds nothing).  'err' is    *)
(* str(e) of the exception the fetch raised ("" when it returned).         *)
(***************************************************************************)
FromAnn     == [raw |-> "Ann <ann@x.org>", match |-> "ann@x.org"]
FromUnknown == [raw |-> "Unknown", match |-> ""]
Txt_body    == <<"Hello">>
Err404      == "HttpError 404"

\* no record: the local is not bound yet
NoEmail == [id |-> 0, from |-> [raw |-> "", match |-> ""], subject |-> "", body |-> << >>]

get_email_details(message_id, err) ==
    IF err = ""
    THEN [id |-> message_id, from |-> FromAnn, subject |-> "Hello", body |-> Txt_body]
    ELSE [id |-> message_id, from |-> FromUnknown, subject |-> "Error fetching email",
          body |-> <<"Error: ", err>>]

(***************************************************************************)
(* search_conversation_history (lines 230-325).  The mailbox service's     *)
(* answer h is [ok, msgs]: whether messages().list returned, and the       *)
(* messages listed, each [id, from_them, get] with from_them telling       *)
(* whether the address occurs in its From header and get the outcome of    *)
(* its metadata fetch ("ok", "404", or another error).                     *)
(***************************************************************************)
\* messages().list(q=query, maxResults=20)
HistoryLimit == 20
\* messages the history listing can hold in the model
MaxHist == 2
HistIds == 1..MaxHist
Err500 == "HttpError 500"

HistMsgs == [id : HistIds, from_them : BOOLEAN, get : {"ok", "404", "error"}]

HistoryListings ==
    UNION { { q \in [1..n -> HistMsgs] : \A i, j \in 1..n : i # j => q[i].id # q[j].id } :
            n \in 0..Min(HistoryLimit, MaxHist) }

HistoryAnswers == {[ok |-> FALSE, msgs |-> << >>]} \cup {[ok |-> TRUE, msgs |-> q] : q \in HistoryListings}

\* A long conversation: the server holds n messages about the address and
\* messages().list returns the first maxResults of them; the metadata
\* fetches succeed or fail after one of a few patterns.
ThreadSizes == {HistoryLimit - 1, HistoryLimit, HistoryLimit + 1}
FetchPatterns == 0..4

FetchPattern(r, i) ==
    CASE r = 3 -> "ok"
      [] r = 4 -> IF i % 2 = 0 THEN "404" ELSE "error"
      [] OTHER -> IF (i + r) % 3 = 0 THEN "ok"
                  ELSE IF (i + r) % 3 = 1 THEN "404" ELSE "error"

messages_list(n, maxResults, r) ==
    [i \in 1..Min(n, maxResults) |->
        [id |-> i, from_them |-> (i % 2 = 1), get |-> FetchPattern(r, i)]]

LongAnswers ==
    { [ok |-> TRUE, msgs |-> messages_list(n, HistoryLimit, r)] :
        n \in ThreadSizes, r \in FetchPatterns }

\* the answers offered to the history step of a cycle
HistoryInputs ==
    { [ok |-> FALSE, msgs |-> << >>],
      [ok |-> TRUE,  msgs |-> <<[id |-> 1, from_them |-> TRUE, get |-> "ok"]>>] }

NoAnswer  == [ok |-> TRUE, msgs |-> << >>]
NoSummary == [head |-> "", arg |-> "", lines |-> << >>]
NoHistory == [total_count |-> -1, sender |-> "", all_emails |-> << >>, summary |-> NoSummary]

\* lines 232-234: the address found in the header, else the header itself
extract_address(from) == IF from.match # "" THEN from.match ELSE from.raw

\* line 279
direction(m) == IF m.from_them THEN "FROM them" ELSE "TO them (your reply)"

\* the loop with a handler for the 404 case alone: another error ends it
RECURSIVE HistoryLoop_only404(_, _, _)
HistoryLoop_only404(msgs, i, all_emails) ==
    IF i > Len(msgs) THEN all_emails
    ELSE IF msgs[i].get = "404" THEN HistoryLoop_only404(msgs, i + 1, all_emails)
    ELSE IF msgs[i].get # "ok" THEN all_emails
    ELSE HistoryLoop_only404(msgs, i + 1,
                     Append(all_emails, [id |-> msgs[i].id, direction |-> direction(msgs[i])]))

\* lines 262-296: a message whose metadata fetch raises is skipped
RECURSIVE HistoryLoop(_, _, _)
HistoryLoop(msgs, i, all_emails) ==
    IF i > Len(msgs) THEN all_emails
    ELSE IF msgs[i].get # "ok" THEN HistoryLoop(msgs, i + 1, all_emails)
    ELSE HistoryLoop(msgs, i + 1,
                     Append(all_emails, [id |-> msgs[i].id, direction |-> direction(msgs[i])]))

\* lines 301-309: the header lines and one entry per email kept
Summary(sender_email, all_emails) ==
    [head |-> "COMPLETE conversation history with", arg |-> sender_email,
     lines |-> [k \in 1..Len(all_emails) |-> all_emails[k].direction]]

\* the function without the test of line 251
search_conversation_history_noguard(from, h) ==
    LET sender_email == extract_address(from)
    IN  IF ~h.ok
        THEN [total_count |-> 0, sender |-> sender_email, all_emails |-> << >>,
              summary |-> [head |-> "Error searching history:", arg |-> Err500, lines |-> << >>]]
        ELSE LET all_emails == HistoryLoop(h.msgs, 1, << >>)
             IN  [total_count |-> Len(all_emails), sender |-> sender_email,
                  all_emails |-> all_emails, summary |-> Summary(sender_email, all_emails)]

search_conversation_history(from, h) ==
    LET sender_email == extract_address(from)
    IN  IF ~h.ok
        THEN [total_count |-> 0, sender |-> sender_email, all_emails |-> << >>,
              summary |-> [head |-> "Error searching history:", arg |-> Err500, lines |-> << >>]]
        ELSE IF h.msgs = << >>
        THEN [total_count |-> 0, sender |-> sender_email, all_emails |-> << >>,
              summary |-> [head |-> "No previous conversation with", arg |-> sender_email,
                           lines |-> << >>]]
        ELSE LET all_emails == HistoryLoop(h.msgs, 1, << >>)
             IN  [total_count |-> Len(all_emails), sender |-> sender_email,
                  all_emails |-> all_emails, summary |-> Summary(sender_email, all_emails)]

(***************************************************************************)
(* create_draft_reply (lines 409-442): one call of the reasoning service,  *)
(* whose text is searched for the success phrases.                         *)
(***************************************************************************)
success_indicators ==
    << <<"d","r","a","f","t"," ","c","r","e","a","t","e","d">>,
       <<"d","r","a","f","t"," ","i","d">>,
       <<"s","u","c","c","e","s","s","f","u","l","l","y">>,
       <<"c","r","e","a","t","e","d"," ","d","r","a","f","t">>,
       <<"d","r","a","f","t"," ","h","a","s"," ","b","e","e","n">>,
       <<"i","d",":">>,
       <<"d","r","a","f","t","_","i","d">>,
       <<"s","u","c","c","e","s","s">> >>

\* any(indicator in response.lower() for indicator in success_indicators)
any_indicator(text) ==
    \E k \in 1..Len(success_indicators) : contains(success_indicators[k], lower(text))

\* the else branch of line 439 reporting a failure
create_draft_reply_strict(o) == IF any_indicator(run_agent_task(o)) THEN TRUE ELSE FALSE

create_draft_reply(o) == IF any_indicator(run_agent_task(o)) THEN TRUE ELSE TRUE

\* what create_draft_reply returns for each outcome of its call
DraftCalls(outcomes) == {[out |-> o, result |-> create_draft_reply(o)] : o \in outcomes}

\* the calls offered to the draft step of a cycle
ReplyDraftCalls == DraftCalls(DraftOutcomes)

NoDraft == [made |-> FALSE, body |-> << >>, out |-> NoEvents, result |-> FALSE]

(***************************************************************************)
(* Initial state: EmailAgent.__init__ and the choice made in main.         *)
(***************************************************************************)
Init ==
    /\ idate = << >>
    /\ processed_emails = {}
    /\ last_check_time = None
    /\ mode \in {"once", "continuous"}
    /\ pc = "top"
    /\ cycleMode = "none"
    /\ messages = << >>
    /\ emails = << >>
    /\ idx = 0
    /\ new_email = NoEmail
    /\ action = << >>
    /\ response = << >>
    /\ history = NoHistory
    /\ hist_in = NoAnswer
    /\ gen_out = NoEvents
    /\ draft_call = NoDraft
    /\ outcome = "none"
    /\ cp0 = None
    /\ wall = 0
    /\ ps0 = {}
    /\ bad = 0
    /\ bad_fetch = 0
    /\ raw = << >>
    /\ cur = 0
    /\ verdict = [i \in Ids |-> "none"]
    /\ nClassify = [i \in Ids |-> 0]
    /\ nHistory = [i \in Ids |-> 0]
    /\ nGenerate = [i \in Ids |-> 0]
    /\ nDraft = [i \in Ids |-> 0]

(***************************************************************************)
(* The environment: a message arrives.  The agent reads the mailbox only   *)
(* in the listing at the start of a cycle, so an arrival while a cycle     *)
(* runs is the same as an arrival before the next one.                     *)
(***************************************************************************)
Arrive ==
    /\ pc = "top"
    /\ Len(idate) < MaxMsgs
    /\ \E d \in Dates : idate' = Append(idate, d)
    /\ UNCHANGED <<agentVars, ctlVars, stepVars, histVars>>

(***************************************************************************)
(* process_new_emails, first run (lines 450-462): search_new_emails with   *)
(* max_results=5; an empty result sets the checkpoint to the wall clock    *)
(* and returns, otherwise the checkpoint is emails[0]['internal_date'].    *)
(***************************************************************************)
StartCycleVars(md, msgs) ==
    /\ cycleMode' = md
    /\ messages' = msgs
    /\ cp0' = last_check_time
    /\ ps0' = processed_emails
    /\ cur' = 0
    /\ raw' = << >>
    /\ new_email' = NoEmail
    /\ action' = << >>
    /\ response' = << >>
    /\ bad_fetch' = 0

Bootstrap ==
    /\ pc = "top"
    /\ NoCheckpoint(last_check_time)
    /\ \E listOk \in BOOLEAN :
       \E msgs \in (IF listOk THEN Listings(fetch_limit(BootstrapLimit)) ELSE {<< >>}) :
       \E failAt \in 0..Len(msgs) :
       \E now \in Clock :
         LET r == search_new_emails(listOk, msgs, failAt, BootstrapLimit)
         IN  /\ StartCycleVars("bootstrap", msgs)
             /\ emails' = r.emails
             /\ bad' = r.bad
             /\ wall' = IF r.emails = << >> THEN now ELSE 0
             /\ IF r.emails = << >>
                THEN /\ last_check_time' = time_ms(now)
                     /\ pc' = AfterCycle
                     /\ idx' = 0
                     /\ outcome' = IF ~listOk THEN "list_failed"
                                   ELSE IF r.raised THEN "get_failed"
                                   ELSE "no_new"
                ELSE /\ last_check_time' = r.emails[1].internal_date
                     /\ pc' = "fetch"
                     /\ idx' = 1
                     /\ outcome' = "running"
    /\ UNCHANGED <<envVars, processed_emails, mode, stepVars, verdict,
                   nClassify, nHistory, nGenerate, nDraft>>

(***************************************************************************)
(* process_new_emails, live mode (lines 463-511): list up to 10 unread,    *)
(* scan until the first internal_date <= checkpoint; any exception of the  *)
(* listing or of a metadata fetch returns from the cycle.                  *)
(***************************************************************************)
Live ==
    /\ pc = "top"
    /\ ~NoCheckpoint(last_check_time)
    /\ \E listOk \in BOOLEAN :
       \E msgs \in (IF listOk THEN Listings(LiveLimit) ELSE {<< >>}) :
       \E failAt \in 0..Len(msgs) :
         LET r == LiveScan(msgs, 1, << >>, failAt)
         IN  /\ StartCycleVars("live", msgs)
             /\ wall' = 0
             /\ bad' = r.bad
             /\ IF ~listOk \/ r.raised
                THEN /\ emails' = << >>
                     /\ pc' = AfterCycle
                     /\ idx' = 0
                     /\ outcome' = IF ~listOk THEN "list_failed" ELSE "get_failed"
                ELSE IF r.emails = << >>
                THEN /\ emails' = << >>
                     /\ pc' = AfterCycle
                     /\ idx' = 0
                     /\ outcome' = "no_new"
                ELSE /\ emails' = r.emails
                     /\ pc' = "fetch"
                     /\ idx' = 1
                     /\ outcome' = "running"
    /\ UNCHANGED <<envVars, agentVars, mode, stepVars, verdict,
                   nClassify, nHistory, nGenerate, nDraft>>

(***************************************************************************)
(* The loop body of process_new_emails (lines 516-561), one step per call. *)
(***************************************************************************)
message_id == emails[idx].id

\* 'continue' or the end of the loop body: next message, or leave the loop.
\* The locals of the iteration are rebound before they are read again.
NextMessage ==
    /\ IF idx < Len(emails)
       THEN /\ idx' = idx + 1
            /\ pc' = "fetch"
       ELSE /\ idx' = idx
            /\ pc' = "checkpoint"
    /\ new_email' = NoEmail
    /\ response' = << >>

\* a failed get_email_details ending the cycle instead of going on
FetchDetails_abort ==
    /\ pc = "fetch"
    /\ \E err \in {"", Err404} :
         /\ new_email' = get_email_details(message_id, err)
         /\ bad_fetch' = IF err = "" THEN 0 ELSE message_id
         /\ pc' = IF err = "" THEN "classify" ELSE AfterCycle
    /\ UNCHANGED <<envVars, agentVars, mode, cycleMode, messages, emails, idx,
                   action, response, stepVars, outcome, cp0, wall, ps0, bad, raw, cur,
                   verdict, nClassify, nHistory, nGenerate, nDraft>>

FetchDetails ==
    /\ pc = "fetch"
    /\ \E err \in {"", Err404} :
         /\ new_email' = get_email_details(message_id, err)
         /\ bad_fetch' = IF err = "" THEN 0 ELSE message_id
    /\ pc' = "classify"
    /\ UNCHANGED <<envVars, agentVars, mode, cycleMode, messages, emails, idx,
                   action, response, stepVars, outcome, cp0, wall, ps0, bad, raw, cur,
                   verdict, nClassify, nHistory, nGenerate, nDraft>>

ClassifyWith(outcomes) ==
    /\ pc = "classify"
    /\ \E o \in outcomes :
         /\ raw' = run_agent_task(o)
         /\ action' = classify_email(o)
    /\ cur' = message_id
    /\ nClassify' = Inc(nClassify, message_id)
    /\ pc' = "branch"
    /\ UNCHANGED <<envVars, agentVars, mode, cycleMode, messages, emails, idx,
                   new_email, response, stepVars, outcome, cp0, wall, ps0, bad, bad_fetch,
                   verdict,
                   nHistory, nGenerate, nDraft>>

Classify == ClassifyWith(ClassifyOutcomes)

\* line 537 with the 'continue' of line 540 left out
Branch_nocontinue ==
    /\ pc = "branch"
    /\ IF IsIgnore(action)
       THEN /\ processed_emails' = processed_emails \cup {message_id}
            /\ verdict' = [verdict EXCEPT ![message_id] = "ignore"]
       ELSE /\ verdict' = [verdict EXCEPT ![message_id] = "process"]
            /\ UNCHANGED processed_emails
    /\ pc' = "history"
    /\ UNCHANGED <<envVars, last_check_time, mode, cycleMode, messages, emails, idx,
                   new_email, action, response, stepVars, outcome, cp0, wall, ps0, bad, bad_fetch,
                   raw, cur, nClassify, nHistory, nGenerate, nDraft>>

\* line 537: ignore -> mark processed and continue; otherwise go on
Branch ==
    /\ pc = "branch"
    /\ IF IsIgnore(action)
       THEN /\ processed_emails' = processed_emails \cup {message_id}
            /\ verdict' = [verdict EXCEPT ![message_id] = "ignore"]
            /\ NextMessage
       ELSE /\ verdict' = [verdict EXCEPT ![message_id] = "process"]
            /\ pc' = "history"
            /\ UNCHANGED <<processed_emails, idx, new_email, response>>
    /\ UNCHANGED <<envVars, last_check_time, mode, cycleMode, messages, emails,
                   action, stepVars, outcome, cp0, wall, ps0, bad, bad_fetch,
                   raw, cur, nClassify, nHistory, nGenerate, nDraft>>

\* history = self.search_conversation_history(new_email.get('from', ''));
\* 'action' is not read after line 537
HistoryWith(answers) ==
    /\ pc = "history"
    /\ \E h \in answers :
         /\ hist_in' = h
         /\ history' = search_conversation_history(new_email.from, h)
    /\ nHistory' = Inc(nHistory, message_id)
    /\ pc' = "generate"
    /\ action' = << >>
    /\ raw' = << >>
    /\ cur' = 0
    /\ UNCHANGED <<envVars, agentVars, mode, cycleMode, messages, emails, idx,
                   new_email, response, gen_out, draft_call,
                   outcome, cp0, wall, ps0, bad, bad_fetch,
                   verdict, nClassify, nGenerate, nDraft>>

History == HistoryWith(HistoryInputs)

\* a failed generation going to line 556 without the draft request
Generate_nodraft ==
    /\ pc = "generate"
    /\ \E o \in ReplyOutcomes :
         /\ gen_out' = o
         /\ response' = run_agent_task(o)
         /\ pc' = IF o.kind = "error" THEN "mark" ELSE "draft"
    /\ nGenerate' = Inc(nGenerate, message_id)
    /\ UNCHANGED <<envVars, agentVars, mode, cycleMode, messages, emails, idx,
                   new_email, action, history, hist_in, draft_call,
                   outcome, cp0, wall, ps0, bad, bad_fetch, raw, cur,
                   verdict, nClassify, nHistory, nDraft>>

\* generate_response_with_context: response = self.run_agent_task(query)
Generate ==
    /\ pc = "generate"
    /\ \E o \in ReplyOutcomes :
         /\ gen_out' = o
         /\ response' = run_agent_task(o)
    /\ nGenerate' = Inc(nGenerate, message_id)
    /\ pc' = "draft"
    /\ UNCHANGED <<envVars, agentVars, mode, cycleMode, messages, emails, idx,
                   new_email, action, history, hist_in, draft_call,
                   outcome, cp0, wall, ps0, bad, bad_fetch, raw, cur,
                   verdict, nClassify, nHistory, nDraft>>

\* create_draft_reply(new_email, response): its result is not used
DraftWith(calls) ==
    /\ pc = "draft"
    /\ \E c \in calls :
         draft_call' = [made |-> TRUE, body |-> response, out |-> c.out,
                        result |-> c.result]
    /\ nDraft' = Inc(nDraft, message_id)
    /\ pc' = "mark"
    /\ UNCHANGED <<envVars, agentVars, mode, cycleMode, messages, emails, idx,
                   new_email, action, response, history, hist_in, gen_out,
                   outcome, cp0, wall, ps0, bad, bad_fetch, raw, cur,
                   verdict, nClassify, nHistory, nGenerate>>

Draft == DraftWith(ReplyDraftCalls)

\* line 556 reached only when the draft call did not end in an error
MarkProcessed_unless_error ==
    /\ pc = "mark"
    /\ processed_emails' = IF draft_call.out.kind = "error" THEN processed_emails
                            ELSE processed_emails \cup {message_id}
    /\ NextMessage
    /\ history' = NoHistory
    /\ hist_in' = NoAnswer
    /\ gen_out' = NoEvents
    /\ draft_call' = NoDraft
    /\ UNCHANGED <<envVars, last_check_time, mode, cycleMode, messages, emails,
                   action, histVars>>

\* line 556 followed by a checkpoint update for the message just handled
MarkProcessed_advance ==
    /\ pc = "mark"
    /\ processed_emails' = processed_emails \cup {message_id}
    /\ last_check_time' = emails[idx].internal_date
    /\ NextMessage
    /\ history' = NoHistory
    /\ hist_in' = NoAnswer
    /\ gen_out' = NoEvents
    /\ draft_call' = NoDraft
    /\ UNCHANGED <<envVars, mode, cycleMode, messages, emails, action, histVars>>

\* line 556: self.processed_emails.add(message_id)
MarkProcessed ==
    /\ pc = "mark"
    /\ processed_emails' = processed_emails \cup {message_id}
    /\ NextMessage
    /\ history' = NoHistory
    /\ hist_in' = NoAnswer
    /\ gen_out' = NoEvents
    /\ draft_call' = NoDraft
    /\ UNCHANGED <<envVars, last_check_time, mode, cycleMode, messages, emails,
                   action, histVars>>

(***************************************************************************)
(* Lines 563-568: the checkpoint becomes the maximum internal_date.        *)
(***************************************************************************)
\* the end of the cycle without lines 563-568
UpdateCheckpoint_keep ==
    /\ pc = "checkpoint"
    /\ outcome' = "completed"
    /\ pc' = AfterCycle
    /\ new_email' = NoEmail
    /\ action' = << >>
    /\ response' = << >>
    /\ raw' = << >>
    /\ cur' = 0
    /\ idx' = 0
    /\ bad_fetch' = 0
    /\ UNCHANGED <<envVars, agentVars, mode, cycleMode, messages, emails, stepVars,
                   cp0, wall, ps0, bad, verdict, nClassify, nHistory, nGenerate, nDraft>>

UpdateCheckpoint ==
    /\ pc = "checkpoint"
    /\ last_check_time' = newest_timestamp(emails)
    /\ outcome' = "completed"
    /\ pc' = AfterCycle
    /\ new_email' = NoEmail
    /\ action' = << >>
    /\ response' = << >>
    /\ raw' = << >>
    /\ cur' = 0
    /\ idx' = 0
    /\ bad_fetch' = 0
    /\ UNCHANGED <<envVars, processed_emails, mode, cycleMode, messages, emails, stepVars,
                   cp0, wall, ps0, bad, verdict, nClassify, nHistory, nGenerate, nDraft>>

(***************************************************************************)
(* run_continuous (lines 580-586): time.sleep(check_interval), then the    *)
(* next cycle; KeyboardInterrupt ends the loop wherever the thread is.     *)
(***************************************************************************)
Wake ==
    /\ pc = "sleep"
    /\ pc' = "top"
    /\ cycleMode' = "none"
    /\ messages' = << >>
    /\ emails' = << >>
    /\ outcome' = "none"
    /\ cp0' = None
    /\ wall' = 0
    /\ ps0' = {}
    /\ bad' = 0
    /\ UNCHANGED <<envVars, agentVars, mode, idx, new_email, action, response, stepVars,
                   bad_fetch, raw, cur, verdict, nClassify, nHistory, nGenerate, nDraft>>

\* the interrupt handled by a 'finally' that runs lines 563-568
Interrupt_finally ==
    /\ pc \notin {"done", "stopped"}
    /\ pc' = "stopped"
    /\ last_check_time' = IF outcome = "running" THEN newest_timestamp(emails)
                           ELSE last_check_time
    /\ new_email' = NoEmail
    /\ action' = << >>
    /\ response' = << >>
    /\ history' = NoHistory
    /\ hist_in' = NoAnswer
    /\ gen_out' = NoEvents
    /\ raw' = << >>
    /\ UNCHANGED <<envVars, processed_emails, mode, cycleMode, messages, emails, idx,
                   draft_call, outcome, cp0, wall, ps0, bad, bad_fetch, cur, verdict,
                   nClassify, nHistory, nGenerate, nDraft>>

\* The exception leaves process_new_emails: its locals are gone, the fields
\* of the agent stay as they are.
Interrupt ==
    /\ pc \notin {"done", "stopped"}
    /\ pc' = "stopped"
    /\ new_email' = NoEmail
    /\ action' = << >>
    /\ response' = << >>
    /\ history' = NoHistory
    /\ hist_in' = NoAnswer
    /\ gen_out' = NoEvents
    /\ raw' = << >>
    /\ UNCHANGED <<envVars, agentVars, mode, cycleMode, messages, emails, idx,
                   draft_call, outcome, cp0, wall, ps0, bad, bad_fetch, cur, verdict,
                   nClassify, nHistory, nGenerate, nDraft>>

Next ==
    \/ Arrive
    \/ Bootstrap
    \/ Live
    \/ FetchDetails
    \/ Classify
    \/ Branch
    \/ History
    \/ Generate
    \/ Draft
    \/ MarkProcessed
    \/ UpdateCheckpoint
    \/ Wake
    \/ Interrupt

Spec == Init /\ [][Next]_vars

(***************************************************************************)
(* The run with its scheduling: the process has one thread, every call to  *)
(* the mailbox and reasoning services returns or raises, and time.sleep    *)
(* ends, so the step the thread is at is eventually taken unless a         *)
(* KeyboardInterrupt comes first.  Arrivals and the interrupt are the      *)
(* environment's and are not forced.                                       *)
(***************************************************************************)
AgentStep ==
    \/ Bootstrap
    \/ Live
    \/ FetchDetails
    \/ Classify
    \/ Branch
    \/ History
    \/ Generate
    \/ Draft
    \/ MarkProcessed
    \/ UpdateCheckpoint
    \/ Wake

SpecLive == Init /\ [][Next]_vars /\ WF_vars(AgentStep)

(***************************************************************************)
(* The classification step alone, over many texts: a cycle has enumerated  *)
(* one message and fetched it; the reasoning service answers anything.     *)
(***************************************************************************)
Prefixes == { << >>, <<" ">>, <<"t","o"," ">> }
Cores    == { Txt_ignore, <<"I","g","n","o","r","e">>, <<"I","G","N","O","R","E">>,
              <<"i","G","n","O","r","E">>, Txt_ignor, <<"g","n","o","r","e">>,
              <<"i","g","n"," ","o","r","e">>, Txt_IGNORED, Txt_process, Txt_Process_ws,
              Txt_empty, Txt_quota }
Suffixes == { << >>, <<"\n">>, <<"d">>, <<"!"," ">> }
Texts    == { p \o c \o x : p \in Prefixes, c \in Cores, x \in Suffixes }

AnyOutcomes == {Content(t) : t \in Texts} \cup {Raises(t) : t \in Texts} \cup {NoEvents}

InitClassify ==
    /\ \E d \in Dates :
         /\ idate = <<d>>
         /\ last_check_time = d
         /\ emails = <<[id |-> 1, internal_date |-> d]>>
    /\ processed_emails = {}
    /\ mode \in {"once", "continuous"}
    /\ pc = "classify"
    /\ cycleMode = "bootstrap"
    /\ messages = <<1>>
    /\ idx = 1
    /\ \E err \in {"", Err404} :
         /\ new_email = get_email_details(1, err)
         /\ bad_fetch = IF err = "" THEN 0 ELSE 1
    /\ action = << >>
    /\ response = << >>
    /\ history = NoHistory
    /\ hist_in = NoAnswer
    /\ gen_out = NoEvents
    /\ draft_call = NoDraft
    /\ outcome = "running"
    /\ cp0 = None
    /\ wall = 0
    /\ ps0 = {}
    /\ bad = 0
    /\ raw = << >>
    /\ cur = 0
    /\ verdict = [i \in Ids |-> "none"]
    /\ nClassify = [i \in Ids |-> 0]
    /\ nHistory = [i \in Ids |-> 0]
    /\ nGenerate = [i \in Ids |-> 0]
    /\ nDraft = [i \in Ids |-> 0]

ClassifyAny == ClassifyWith(AnyOutcomes)

NextClassify ==
    \/ ClassifyAny
    \/ Branch

SpecClassify == InitClassify /\ [][NextClassify]_vars

(***************************************************************************)
(* The run with a mailbox service that does not report the same            *)
(* internalDate for a message every time: a metadata response without the  *)
(* field is read as 0 (line 148), and a later response for the same        *)
(* message carries the date.                                               *)
(***************************************************************************)
Redate ==
    /\ pc = "top"
    /\ \E i \in Arrived :
         /\ idate[i] = 0
         /\ \E d \in Dates \ {0} : idate' = [idate EXCEPT ![i] = d]
    /\ UNCHANGED <<agentVars, ctlVars, stepVars, histVars>>

NextRedate ==
    \/ Next
    \/ Redate

SpecRedate == Init /\ [][NextRedate]_vars

(***************************************************************************)
(* The history step alone, over every answer of the mailbox service: a     *)
(* cycle has enumerated one message, fetched it (or built its placeholder) *)
(* and classified it as to be processed.                                   *)
(***************************************************************************)
InitPipeline(at) ==
    /\ \E d \in Dates :
         /\ idate = <<d>>
         /\ last_check_time = d
         /\ emails = <<[id |-> 1, internal_date |-> d]>>
    /\ processed_emails = {}
    /\ mode \in {"once", "continuous"}
    /\ pc = at
    /\ cycleMode = "bootstrap"
    /\ messages = <<1>>
    /\ idx = 1
    /\ \E err \in {"", Err404} :
         /\ new_email = get_email_details(1, err)
         /\ bad_fetch = IF err = "" THEN 0 ELSE 1
    /\ IF at = "history"
       THEN /\ \E o \in {Content(Txt_process), Raises(Txt_quota)} :
                 /\ raw = run_agent_task(o)
                 /\ action = classify_email(o)
            /\ cur = 1
       ELSE /\ raw = << >>
            /\ action = << >>
            /\ cur = 0
    /\ outcome = "running"
    /\ cp0 = None
    /\ wall = 0
    /\ ps0 = {}
    /\ bad = 0
    /\ verdict = [i \in Ids |-> IF i = 1 THEN "process" ELSE "none"]
    /\ nClassify = [i \in Ids |-> IF i = 1 THEN 1 ELSE 0]

InitHistory ==
    /\ InitPipeline("history")
    /\ response = << >>
    /\ history = NoHistory
    /\ hist_in = NoAnswer
    /\ gen_out = NoEvents
    /\ draft_call = NoDraft
    /\ nHistory = [i \in Ids |-> 0]
    /\ nGenerate = [i \in Ids |-> 0]
    /\ nDraft = [i \in Ids |-> 0]

AllHistoryAnswers == HistoryAnswers \cup LongAnswers

HistoryAny == HistoryWith(AllHistoryAnswers)

NextHistory ==
    \/ HistoryAny
    \/ Generate

SpecHistory == InitHistory /\ [][NextHistory]_vars

(***************************************************************************)
(* The draft step alone, over many confirmation texts: a cycle has         *)
(* enumerated one message and brought it to the call of line 554.          *)
(***************************************************************************)
ConfirmPrefixes == { << >>, <<"T","h","e"," ">> }
ConfirmCores ==
    { <<"d","r","a","f","t"," ","c","r","e","a","t","e","d">>,
      <<"D","r","a","f","t"," ","C","r","e","a","t","e","d">>,
      <<"D","R","A","F","T"," ","I","D">>,
      <<"S","u","c","c","e","s","s","f","u","l","l","y">>,
      <<"c","r","e","a","t","e","d"," ","d","r","a","f","t">>,
      <<"D","r","a","f","t"," ","h","a","s"," ","b","e","e","n">>,
      <<"I","D",":">>,
      <<"d","r","a","f","t","_","i","d">>,
      <<"S","U","C","C","E","S","S">>,
      <<"d","r","a","f","t"," ","c","r","e","a","t","e">>,
      <<"s","u","c","c","e","s">>,
      <<"i","d">>,
      <<"d","r","a","f","t","i","d">>,
      <<"H","i">>,
      <<"f","a","i","l","e","d">>,
      <<"q","u","o","t","a">>,
      Txt_empty }
ConfirmSuffixes == { << >>, <<"!">>, <<" ","4","2">> }
ConfirmTexts == { p \o c \o x : p \in ConfirmPrefixes, c \in ConfirmCores, x \in ConfirmSuffixes }

ConfirmOutcomes ==
    {Content(t) : t \in ConfirmTexts} \cup {Raises(t) : t \in ConfirmTexts} \cup {NoEvents}

\* the calls offered to the draft step taken alone
AnyDraftCalls == DraftCalls(ConfirmOutcomes)

InitDraft ==
    /\ InitPipeline("draft")
    /\ \E h \in HistoryInputs :
         /\ hist_in = h
         /\ history = search_conversation_history(new_email.from, h)
    /\ \E o \in ReplyOutcomes :
         /\ gen_out = o
         /\ response = run_agent_task(o)
    /\ draft_call = NoDraft
    /\ nHistory = [i \in Ids |-> IF i = 1 THEN 1 ELSE 0]
    /\ nGenerate = [i \in Ids |-> IF i = 1 THEN 1 ELSE 0]
    /\ nDraft = [i \in Ids |-> 0]

DraftAny == DraftWith(AnyDraftCalls)

NextDraft ==
    \/ DraftAny
    \/ MarkProcessed

SpecDraft == InitDraft /\ [][NextDraft]_vars

(***************************************************************************)
(* The continuous loop in the environment the engine is written for: the   *)
(* listing is newest-first, internal_date grows strictly with arrival, no  *)
(* call to the mailbox or the reasoning service fails, nobody reads a      *)
(* message (every arrived message stays unread), nobody cancels the loop,  *)
(* and fewer messages than the limit of the live scan arrive in a run.     *)
(* The steps are those of Next, taken with the inputs such an environment  *)
(* gives; the wall clock is the machine's own and reads anything.          *)
(***************************************************************************)
\* messages().list(q='is:unread ...', maxResults=limit) when every arrived
\* message is unread and the service lists the newest first
newest_unread(limit) ==
    [k \in 1..Min(limit, Len(idate)) |-> Len(idate) + 1 - k]

InitNoMiss == Init /\ mode = "continuous"

ArriveLater ==
    /\ Arrive
    /\ \A i \in 1..Len(idate) : idate[i] < idate'[Len(idate')]

BootstrapOk ==
    /\ Bootstrap
    /\ messages' = newest_unread(fetch_limit(BootstrapLimit))
    /\ outcome' \in {"no_new", "running"}

LiveOk ==
    /\ Live
    /\ messages' = newest_unread(LiveLimit)
    /\ outcome' \in {"no_new", "running"}

FetchDetailsOk == FetchDetails /\ bad_fetch' = 0

ClassifyOk == ClassifyWith({o \in ClassifyOutcomes : o.kind # "error"})

HistoryOk == HistoryWith({h \in HistoryInputs : h.ok})

GenerateOk == Generate /\ gen_out'.kind # "error"

DraftOk == DraftWith({c \in ReplyDraftCalls : c.out.kind # "error"})

AgentStepNoMiss ==
    \/ BootstrapOk
    \/ LiveOk
    \/ FetchDetailsOk
    \/ ClassifyOk
    \/ Branch
    \/ HistoryOk
    \/ GenerateOk
    \/ DraftOk
    \/ MarkProcessed
    \/ UpdateCheckpoint
    \/ Wake

NextNoMiss ==
    \/ ArriveLater
    \/ AgentStepNoMiss

SpecNoMiss == InitNoMiss /\ [][NextNoMiss]_vars /\ WF_vars(AgentStepNoMiss)

(***************************************************************************)
(* Properties.                                                             *)
(***************************************************************************)
InPipeline == pc \in {"fetch", "classify", "branch", "history", "generate", "draft", "mark"}
CycleOver  == pc \in {"sleep", "done"}
IdsOf(es)  == {es[k].id : k \in 1..Len(es)}
Listed     == {messages[k] : k \in 1..Len(messages)}

\* C1: no message id is classified, used for reply generation or drafted
\* more than once in a run, and the message a pipeline is working on is
\* never one that is already in ProcessedSet.
C1_NoReprocessing ==
    /\ \A i \in Ids : nClassify[i] <= 1 /\ nGenerate[i] <= 1 /\ nDraft[i] <= 1
    /\ InPipeline => message_id \notin processed_emails

\* a live cycle was handed a listing holding an id already in ProcessedSet
\* next to a new one, and ran to completion
C1_Witness ==
    /\ cycleMode = "live"
    /\ outcome = "completed"
    /\ Listed \cap ps0 # {}
    /\ \E i \in Ids : nClassify[i] = 1 /\ i \in ps0 /\ i \in Listed

\* C2: once set, the checkpoint never decreases: every step leaves
\* last_check_time greater than or equal to its previous set value.
C2_CheckpointMonotonic ==
    [][last_check_time # None => last_check_time' >= last_check_time]_vars

\* a live cycle given an unsorted listing raised a checkpoint that was set
C2_Witness ==
    /\ cycleMode = "live"
    /\ outcome = "completed"
    /\ cp0 # None
    /\ Len(emails) >= 2
    /\ emails[1].internal_date < emails[2].internal_date
    /\ last_check_time > cp0

\* C3: in a live cycle whose enumeration returned, the new list is the
\* longest prefix of the listing (at most 10 long) whose members have
\* internal_date > checkpoint; no message enumerated has internal_date <=
\* checkpoint; for a listing descending by internal_date the new list is
\* all listed messages with internal_date > checkpoint.
Descending(ms) == \A k \in 1..(Len(ms) - 1) : idate[ms[k]] >= idate[ms[k + 1]]

C3_LivePrefix ==
    (cycleMode = "live" /\ outcome \in {"running", "completed", "no_new"}) =>
        /\ Len(messages) <= 10
        /\ Len(emails) <= Len(messages)
        /\ \A k \in 1..Len(emails) :
             /\ emails[k].id = messages[k]
             /\ emails[k].internal_date = idate[messages[k]]
             /\ emails[k].internal_date > cp0
        /\ Len(emails) < Len(messages) => idate[messages[Len(emails) + 1]] <= cp0
        /\ Descending(messages) => IdsOf(emails) = {i \in Listed : idate[i] > cp0}

\* the scan stopped inside the listing, at a message dated exactly at the
\* checkpoint, after having taken a newer one
C3_Witness ==
    /\ cycleMode = "live"
    /\ outcome = "completed"
    /\ Len(emails) = 1
    /\ Len(messages) = 2
    /\ idate[messages[2]] = cp0

\* C4: at the end of a cycle that enumerated messages and ran to
\* completion, the checkpoint is the maximum internal_date over all the
\* messages enumerated; a live cycle that enumerates nothing leaves the
\* checkpoint as it was.
C4_CheckpointIsMax ==
    /\ outcome = "completed" =>
          /\ emails # << >>
          /\ \A k \in 1..Len(emails) : emails[k].internal_date <= last_check_time
          /\ \E k \in 1..Len(emails) : emails[k].internal_date = last_check_time
    /\ (cycleMode = "live" /\ outcome \in {"no_new", "list_failed", "get_failed"}) =>
          last_check_time = cp0

\* a completed cycle whose newest message was not the first of the list and
\* was ignored, the first one having been drafted
C4_Witness ==
    /\ outcome = "completed"
    /\ Len(emails) = 2
    /\ emails[1].internal_date < emails[2].internal_date
    /\ verdict[emails[1].id] = "process"
    /\ verdict[emails[2].id] = "ignore"
    /\ last_check_time = emails[2].internal_date

\* C5: in a bootstrap cycle with the checkpoint unset whose fetch returned
\* unread messages, all of them (at most 5) are enumerated as new in the
\* order listed, whatever their internal_date, and at the end of the cycle
\* the checkpoint is the internal_date of the newest of them.
C5_Bootstrap ==
    (cycleMode = "bootstrap" /\ cp0 = None /\ outcome \in {"running", "completed", "no_new"}) =>
        /\ Len(messages) <= 5
        /\ Len(emails) = Len(messages)
        /\ \A k \in 1..Len(emails) :
             emails[k].id = messages[k] /\ emails[k].internal_date = idate[messages[k]]
        /\ (outcome = "completed" /\ CycleOver) =>
             /\ messages # << >>
             /\ \A i \in Listed : idate[i] <= last_check_time
             /\ \E i \in Listed : idate[i] = last_check_time

\* a first cycle that listed two messages, the older one first, and completed
C5_Witness ==
    /\ cycleMode = "bootstrap"
    /\ cp0 = None
    /\ outcome = "completed"
    /\ CycleOver
    /\ Len(messages) = 2
    /\ idate[messages[1]] < idate[messages[2]]
    /\ last_check_time = idate[messages[2]]

\* C6: a bootstrap cycle that finds no unread message sets the checkpoint
\* to the wall clock (epoch milliseconds), enumerates nothing, runs no
\* pipeline step and leaves ProcessedSet as it was.
C6_BootstrapEmpty ==
    (cycleMode = "bootstrap" /\ outcome = "no_new" /\ messages = << >>) =>
        /\ wall \in Clock
        /\ last_check_time = wall
        /\ emails = << >>
        /\ ~InPipeline /\ pc # "checkpoint"
        /\ cur = 0 /\ idx = 0 /\ new_email = NoEmail
        /\ processed_emails = ps0

\* the first cycle found the mailbox without unread messages at clock 2
C6_Witness ==
    /\ cycleMode = "bootstrap"
    /\ outcome = "no_new"
    /\ messages = << >>
    /\ pc = "sleep"
    /\ cp0 = None
    /\ last_check_time = 2

\* C7: a cycle whose listing call fails, in bootstrap as in live mode,
\* processes nothing and leaves the checkpoint and ProcessedSet unchanged.
C7_ListFailureKeepsState ==
    outcome = "list_failed" =>
        /\ emails = << >>
        /\ cur = 0
        /\ processed_emails = ps0
        /\ last_check_time = cp0

\* C8: the failure of the metadata fetch of one message does not keep the
\* other new messages of the listing from being enumerated in that cycle.
NewAt(k) ==
    IF cycleMode = "bootstrap" THEN messages[k] \notin ps0
    ELSE \A j \in 1..k : messages[j] # bad => idate[messages[j]] > cp0

C8_FailureContained ==
    outcome = "get_failed" =>
        \A k \in 1..Len(messages) :
            (messages[k] # bad /\ NewAt(k)) => messages[k] \in IdsOf(emails)

\* C9: the verdict is "ignore" exactly when the text returned by the
\* reasoning service contains "ignore" in any letter case, and "process"
\* for every other text; every text gets one of the two.
IgnoreAt(t, i) ==
    /\ t[i] \in {"i", "I"}
    /\ t[i + 1] \in {"g", "G"}
    /\ t[i + 2] \in {"n", "N"}
    /\ t[i + 3] \in {"o", "O"}
    /\ t[i + 4] \in {"r", "R"}
    /\ t[i + 5] \in {"e", "E"}

MentionsIgnore(t) == \E i \in 1..(Len(t) - 5) : IgnoreAt(t, i)

C9_Verdict ==
    /\ (cur # 0 /\ verdict[cur] # "none") =>
          (verdict[cur] = "ignore" <=> MentionsIgnore(raw))
    /\ (cur # 0 /\ pc \notin {"classify", "branch", "stopped"}) =>
          verdict[cur] \in {"ignore", "process"}

\* the service raised an error whose text holds IGNORE: verdict ignore
C9_Witness ==
    /\ cur # 0
    /\ raw = Txt_ErrorPrefix \o Txt_IGNORED
    /\ verdict[cur] = "ignore"

\* C10: a message whose verdict is ignore is in ProcessedSet and no
\* history lookup, reply generation or draft creation is ever issued for
\* it, in that cycle or a later one.
C10_IgnoreStops ==
    \A i \in Ids :
        verdict[i] = "ignore" =>
            /\ i \in processed_emails
            /\ nClassify[i] = 1
            /\ nHistory[i] = 0 /\ nGenerate[i] = 0 /\ nDraft[i] = 0

\* an ignored message was listed again by a later live cycle that drafted
\* a reply to another message
C10_Witness ==
    /\ cycleMode = "live"
    /\ outcome = "completed"
    /\ \E i \in Listed \cap ps0 : verdict[i] = "ignore"
    /\ \E j \in IdsOf(emails) : nDraft[j] = 1

\* C11: when the full-content fetch of a message fails the cycle goes on:
\* the pipeline works on a placeholder with subject "Error fetching email"
\* and a body carrying the error text, the classification call is still made
\* for that message, and its id is in ProcessedSet once its pipeline is over.
C11_FetchFailureContinues ==
    bad_fetch # 0 =>
        /\ pc \in {"classify", "branch", "history", "generate", "draft", "mark",
                    "fetch", "checkpoint", "stopped"}
        /\ (InPipeline /\ pc # "fetch") =>
               /\ message_id = bad_fetch
               /\ new_email.id = bad_fetch
               /\ new_email.subject = "Error fetching email"
               /\ new_email.body = <<"Error: ", Err404>>
        /\ pc \in {"branch", "history", "generate", "draft", "mark", "fetch", "checkpoint"}
               => nClassify[bad_fetch] = 1
        /\ pc \in {"fetch", "checkpoint"} => bad_fetch \in processed_emails

\* the first of two new messages could not be fetched, was classified as to
\* be processed on its placeholder and marked; the cycle is at the second
C11_Witness ==
    /\ pc = "fetch" /\ idx = 2
    /\ bad_fetch = emails[1].id
    /\ verdict[bad_fetch] = "process"
    /\ nDraft[bad_fetch] = 1
    /\ bad_fetch \in processed_emails

\* C12: when a cycle has run its loop to the end, every id it enumerated as
\* new is in ProcessedSet, whatever the verdicts were and whichever of the
\* detail fetch, history lookup, generation and draft calls failed.
C12_AllEnumeratedProcessed ==
    (pc = "checkpoint" \/ outcome = "completed") => IdsOf(emails) \subseteq processed_emails

\* a cycle of two new messages is over its loop: one was ignored, the other
\* could not be fetched and was processed on its placeholder
C12_Witness ==
    /\ pc = "checkpoint" /\ Len(emails) = 2
    /\ verdict[emails[1].id] = "ignore"
    /\ verdict[emails[2].id] = "process"
    /\ bad_fetch = emails[2].id
    /\ IdsOf(emails) \subseteq processed_emails

\* C13: in continuous mode the scheduler loop does not end by itself:
\* whatever the services answer, a cycle that starts ends in the interval
\* sleep, the sleep is followed by another cycle, and process_new_emails
\* returning never ends the run; only a KeyboardInterrupt stops the loop.
C13_LoopNeverStops ==
    /\ [](mode = "continuous" => pc # "done")
    /\ (mode = "continuous" /\ pc = "top") ~> (pc = "sleep" \/ pc = "stopped")
    /\ (mode = "continuous" /\ pc = "sleep") ~> (pc = "top" \/ pc = "stopped")

\* a later cycle of a continuous run was aborted by a failing call and the
\* loop is in the interval sleep that follows it
C13_Witness ==
    /\ mode = "continuous"
    /\ pc = "sleep"
    /\ cycleMode = "live"
    /\ outcome \in {"list_failed", "get_failed"}
    /\ processed_emails # {}

\* C14: (as claimed) in continuous mode a cancellation takes effect only
\* at the top of a cycle or during the sleep between cycles: when the loop
\* has exited no cycle is left in flight, every message whose pipeline had
\* started is marked processed and the started cycle has made its
\* checkpoint update.
C14_CancelOnlyBetweenCycles ==
    (mode = "continuous" /\ pc = "stopped") =>
        /\ outcome # "running"
        /\ IdsOf(emails) \subseteq processed_emails

\* C14: (amended) a KeyboardInterrupt takes effect wherever the thread is.
\* When it stops a cycle in flight, the messages before the interrupted one
\* are in ProcessedSet, those after it were never started nor marked, and
\* the checkpoint update at the end of the cycle has not been made: the
\* checkpoint is the one the cycle started with (in bootstrap, the
\* internal_date of the first enumerated message, set at line 461).
C14_CancelAnywhere ==
    (pc = "stopped" /\ outcome = "running") =>
        /\ idx \in 1..Len(emails)
        /\ \A k \in 1..Len(emails) :
              /\ k < idx => emails[k].id \in processed_emails
              /\ k > idx => /\ emails[k].id \notin processed_emails
                            /\ nClassify[emails[k].id] = 0
        /\ last_check_time = IF cycleMode = "bootstrap" THEN emails[1].internal_date
                              ELSE cp0

\* a continuous run was interrupted between the draft call of a message and
\* line 556, with another new message of the cycle still to come
C14_Witness ==
    /\ mode = "continuous"
    /\ pc = "stopped"
    /\ outcome = "running"
    /\ draft_call.made
    /\ idx < Len(emails)
    /\ message_id \notin processed_emails

\* C15: a cycle runs in bootstrap mode only when the checkpoint has never
\* been set: once a cycle has set it, to an internal_date or to the wall
\* clock, every later cycle is live, so only the first cycle of a run, with
\* an empty ProcessedSet, can be a bootstrap cycle.
C15_BootstrapOnce ==
    cycleMode = "bootstrap" => (cp0 = None /\ ps0 = {})

\* C16: when the history listing of a counterpart returns no message,
\* search_conversation_history returns a normal result: total_count 0, an
\* empty list of entries, and the "no previous conversation" summary, which
\* is made of the counterpart's address alone; it is not the error result.
C16_EmptyHistory ==
    (pc \in {"generate", "draft"} /\ hist_in.ok /\ hist_in.msgs = << >>) =>
        LET addr == extract_address(new_email.from)
        IN  /\ history.total_count = 0
            /\ history.all_emails = << >>
            /\ history.sender = addr
            /\ history.summary = [head |-> "No previous conversation with", arg |-> addr,
                                   lines |-> << >>]

\* the history of a sender whose header holds no address was looked up,
\* the listing was empty, and the result is the one of "no history"
C16_Witness ==
    /\ pc = "generate"
    /\ hist_in.ok /\ hist_in.msgs = << >>
    /\ new_email.from = FromUnknown
    /\ history.total_count = 0
    /\ history.summary.arg = "Unknown"

\* the order of the steps of the cycle in flight: the message at idx is the
\* only one being worked on, its steps come in the order fetch, classify,
\* history, generate, draft, mark, and the last four only on the verdict
\* "process"
StepOrder ==
    /\ \A i \in Ids : nHistory[i] > 0 \/ nGenerate[i] > 0 \/ nDraft[i] > 0
                         => verdict[i] = "process"
    /\ \A i \in Ids : nDraft[i] <= nGenerate[i] /\ nGenerate[i] <= nHistory[i]
                         /\ nHistory[i] <= nClassify[i]
    /\ InPipeline =>
          /\ message_id \notin processed_emails
          /\ \A k \in 1..Len(emails) :
                /\ k < idx => emails[k].id \in processed_emails
                /\ k > idx => /\ nClassify[emails[k].id] = 0
                              /\ verdict[emails[k].id] = "none"
          /\ pc = "fetch" => new_email = NoEmail /\ nClassify[message_id] = 0
          /\ pc = "classify" => new_email.id = message_id /\ nClassify[message_id] = 0
          /\ pc = "branch" => nClassify[message_id] = 1 /\ verdict[message_id] = "none"
          /\ pc = "history" => verdict[message_id] = "process" /\ nHistory[message_id] = 0
          /\ pc = "generate" => nHistory[message_id] = 1 /\ nGenerate[message_id] = 0
          /\ pc = "draft" => nGenerate[message_id] = 1 /\ nDraft[message_id] = 0
          /\ pc = "mark" => nDraft[message_id] = 1

\* C17: (as claimed) the pipeline is strictly sequential, per message and
\* across the messages of a cycle, and the checkpoint is changed only after
\* the last message: while the loop of a cycle runs the checkpoint is the
\* one the cycle started with.
C17_SequentialCheckpointLast ==
    /\ StepOrder
    /\ outcome = "running" => last_check_time = cp0

\* C17: (amended) the pipeline is strictly sequential, per message and
\* across the messages of a cycle.  In live mode the checkpoint is changed
\* only after the last message.  In bootstrap mode it is first set, before
\* any message is fetched, to the internal_date of the first enumerated
\* message (line 461), and set again after the last message.
C17_Sequential ==
    /\ StepOrder
    /\ outcome = "running" =>
          last_check_time = IF cycleMode = "bootstrap" THEN emails[1].internal_date
                            ELSE cp0

\* a live cycle with two new messages is about to mark the second: the
\* first is marked, the second has had its draft call, and the checkpoint
\* is still below both
C17_Witness ==
    /\ pc = "mark" /\ idx = 2 /\ cycleMode = "live"
    /\ nDraft[message_id] = 1
    /\ emails[1].id \in processed_emails
    /\ last_check_time = cp0
    /\ cp0 < emails[1].internal_date /\ cp0 < emails[2].internal_date

\* the text run_agent_task returns when the call raised
IsErrorText(t) == Len(t) >= Len(Txt_ErrorPrefix) /\ SubSeq(t, 1, Len(Txt_ErrorPrefix)) = Txt_ErrorPrefix

\* C18: a failing classification, generation or draft call does not stop
\* the pipeline; its error text is the result of the step.  The verdict of
\* an error text follows the substring rule; after a failed history lookup
\* or a failed generation exactly one draft request is still issued, with
\* the text of the generation step (the error text when it failed) as the
\* reply body; the message is then marked processed, and every message
\* marked with the verdict "process" has had exactly one draft request.
C18_FailuresPropagate ==
    /\ (cur # 0 /\ verdict[cur] # "none" /\ IsErrorText(raw)) =>
          (verdict[cur] = "ignore" <=> MentionsIgnore(raw))
    /\ (pc \in {"draft", "mark"} /\ gen_out.kind = "error") =>
          response = Txt_ErrorPrefix \o gen_out.text
    /\ pc = "mark" =>
          /\ draft_call.made
          /\ draft_call.body = response
          /\ nHistory[message_id] = 1 /\ nGenerate[message_id] = 1 /\ nDraft[message_id] = 1
    /\ \A i \in Ids : nDraft[i] <= 1
    /\ \A i \in Ids : (verdict[i] = "process" /\ i \in processed_emails) => nDraft[i] = 1
    /\ \A k \in 1..Len(emails) :
          (outcome = "running" /\ verdict[emails[k].id] = "process"
              /\ (k < idx \/ pc = "checkpoint"))
          => emails[k].id \in processed_emails

\* the history lookup, the generation and the draft call of a message
\* failed, after its detail fetch had; the one draft request carried the
\* error text of the generation
C18_Witness ==
    /\ pc = "mark"
    /\ bad_fetch = message_id
    /\ ~hist_in.ok
    /\ gen_out.kind = "error"
    /\ draft_call.out.kind = "error"
    /\ draft_call.body = Txt_ErrorPrefix \o Txt_quota
    /\ nDraft[message_id] = 1

\* C19: no cycle, bootstrap or live, enumerates as new an id that was in
\* ProcessedSet when the cycle started, whatever internal_date the listing
\* reports for it.
C19_EnumerationSkipsProcessed ==
    IdsOf(emails) \cap ps0 = {}

\* C20: create_draft_reply returns True for every text the draft call
\* comes back with, whether it holds a success phrase or not and also when
\* it is the error text of a call that raised; the message is then marked
\* processed.
C20_DraftAlwaysSucceeds ==
    /\ pc = "mark" => (draft_call.made /\ draft_call.result = TRUE)
    /\ pc = "checkpoint" => (message_id \in processed_emails /\ nDraft[message_id] = 1)

\* the draft call raised, its error text holds none of the success phrases,
\* and create_draft_reply returned True
C20_Witness ==
    /\ pc = "mark"
    /\ draft_call.out.kind = "error"
    /\ ~any_indicator(run_agent_task(draft_call.out))
    /\ draft_call.result = TRUE

\* C21: single bad entries never fail the history lookup: whenever the
\* listing returned, whichever of the listed messages (at most 20) failed
\* their metadata fetch, with a 404 or with another error, the call
\* returns a normal result and not the error result; its entries are
\* exactly the messages fetched successfully, in listing order; and
\* total_count is the number of entries, which is at most 20.
C21_BadEntriesSkipped ==
    (pc \in {"generate", "draft"} /\ hist_in.ok) =>
        LET fetched == SelectSeq(hist_in.msgs, LAMBDA m : m.get = "ok")
        IN  /\ history.summary.head # "Error searching history:"
            /\ Len(history.all_emails) = Len(fetched)
            /\ \A k \in 1..Len(fetched) : history.all_emails[k].id = fetched[k].id
            /\ history.total_count = Len(history.all_emails)
            /\ history.total_count <= HistoryLimit

\* a listing of 20 messages, cut from a longer conversation, some of which
\* failed with a 404 and some with another error, gave a shorter history
C21_Witness ==
    /\ pc = "generate"
    /\ hist_in.ok
    /\ Len(hist_in.msgs) = HistoryLimit
    /\ \E i, j \in 1..HistoryLimit :
         /\ i < j
         /\ hist_in.msgs[i].get = "error"
         /\ hist_in.msgs[j].get = "ok"
         /\ \E k \in 1..Len(history.all_emails) : history.all_emails[k].id = j
    /\ \E i \in 1..HistoryLimit : hist_in.msgs[i].get = "404"
    /\ history.total_count \in 1..(HistoryLimit - 1)

\* C22: when a cycle is over, however it ended, every id of ProcessedSet
\* is the id of a message whose internal_date is at most the checkpoint
\* (internal dates do not change); hence a live cycle, which does not
\* look at ProcessedSet, enumerates no message that was processed before
\* the cycle started, even when the listing holds such a message.
C22_ProcessedNotAfterCheckpoint ==
    /\ CycleOver => \A i \in processed_emails : idate[i] <= last_check_time
    /\ cycleMode = "live" => IdsOf(emails) \cap ps0 = {}

\* a live cycle was listed a message processed earlier together with a
\* newer one, enumerated the newer one alone, and completed: both are in
\* ProcessedSet and the checkpoint is the date of the newer one
C22_Witness ==
    /\ pc = "sleep"
    /\ cycleMode = "live"
    /\ outcome = "completed"
    /\ Listed \cap ps0 # {}
    /\ emails # << >>
    /\ Cardinality(processed_emails) >= 2
    /\ \E i \in processed_emails \ ps0 : idate[i] = last_check_time
    /\ \E i \in ps0 : idate[i] < last_check_time

\* C23: in the environment the engine assumes (newest-first listing,
\* internal_date growing with arrival, no failing call, messages staying
\* unread, fewer arrivals between polls than the scan lists), a message
\* that arrives once the checkpoint is set is enumerated as new by some
\* later cycle of the continuous loop, and by no cycle that starts after
\* it was processed.
C23_NoMessageMissed ==
    \A i \in Ids :
        /\ []((last_check_time # None /\ i \notin Arrived) =>
                []((i \in Arrived /\ i \notin processed_emails) =>
                       <>(i \in IdsOf(emails))))
        /\ [](i \in IdsOf(emails) => i \notin ps0)

====
